---- MODULE Spec2Model ----
(***************************************************************************)
(* Model of the token-gated request gateway: src/auth.py (EntraIDAuth,     *)
(* AuthMiddleware, get_current_user) and src/main.py (application wiring,  *)
(* /me and /health handlers, the 401 exception handler).                   *)
(*                                                                         *)
(* Representation.                                                         *)
(*  - A Python dict is a function whose DOMAIN is the set of keys present. *)
(*  - None is the value None; an f-string is the tuple of its parts, with  *)
(*    each interpolated value passed through Str (str(None) = "None").     *)
(*  - A JWT is the record of what its compact serialisation decodes to:    *)
(*    the number of dot-separated segments, the JOSE header, the payload   *)
(*    and the private key that produced the signature.                     *)
(*  - The JWKS endpoint is the environment: the key set it publishes       *)
(*    (keySet) and the outcome of one fetch (a parameter of each call).    *)
(*  - exceptions are records [cls, msg]; `except` clauses are matched in   *)
(*    source order against the class hierarchy of PyJWT.                   *)
(***************************************************************************)
EXTENDS Integers, Sequences, FiniteSets, TLC

\* ------------------------------------------------------------------ bounds
\* the clock runs over 0..MaxTime
MaxTime == 2
\* number of requests the gate sees in one behaviour
NumReq == 2

\* ------------------------------------------------------- python primitives
None == "<None>"

EmptyDict == [k \in {} |-> None]

\* one-entry dict {k: v}
Entry(k, v) == [x \in {k} |-> v]

\* dict.get(k) / os.getenv(k): the value, or None when the key is absent
Get(d, k) == IF k \in DOMAIN d THEN d[k] ELSE None

\* dict.get(k, default) / os.getenv(k, default)
GetOr(d, k, default) == IF k \in DOMAIN d THEN d[k] ELSE default

\* str(v) as used by f-string interpolation
Str(v) == IF v = None THEN "None" ELSE v

\* Body(v) for v the value of e, e being evaluated once
With(e, Body(_)) == CHOOSE b \in { Body(v) : v \in {e} } : TRUE

\* truthiness of an Optional[str]
Truthy(v) == v # None /\ v # ""

\* str.lower() on the values the ENABLE_AUTH variable takes in this model
Lower(s) ==
    CASE s = "TRUE" -> "true"
      [] s = "True" -> "true"
      [] s = "False" -> "false"
      [] OTHER -> s

\* ------------------------------------------------------------------- state
VARIABLES
    env,        \* os.environ as read when auth.py is imported
    proc,       \* "boot" before the modules are imported, then "running" or "failed"
    wiring,     \* how the application registers AuthMiddleware ("main" or "default")
    jwks_client,    \* auth_handler.jwks_client: None or "PyJWKClient"
    excluded_paths, \* AuthMiddleware.excluded_paths, a list of path prefixes
    installed,  \* whether the middleware is registered in front of the routes
    now,        \* wall clock, in seconds, when the requests are handled
    keySet,     \* the key set the JWKS endpoint publishes: key-id -> public key
    reqs,       \* the requests, by number: input, position, trace and outcome
    vcall       \* the last direct call of validate_token and its outcome

vars == <<env, proc, wiring, jwks_client, excluded_paths, installed, now, keySet, reqs, vcall>>

\* --------------------------------------------------- module-level settings
AZURE_TENANT_ID == Get(env, "AZURE_TENANT_ID")

AZURE_CLIENT_ID == Get(env, "AZURE_CLIENT_ID")

TOKEN_AUDIENCE == GetOr(env, "TOKEN_AUDIENCE", <<"api://", Str(AZURE_CLIENT_ID)>>)

ENABLE_AUTH == Lower(GetOr(env, "ENABLE_AUTH", "true")) = "true"

\* mutant: only the v2.0 issuer form is accepted (the TOKEN_ISSUER default)
valid_issuers_v2_only ==
    << <<"https://login.microsoftonline.com/", Str(AZURE_TENANT_ID), "/v2.0">> >>

\* the two issuer forms validate_token accepts for the configured tenant
valid_issuers ==
    << <<"https://sts.windows.net/", Str(AZURE_TENANT_ID), "/">>,
       <<"https://login.microsoftonline.com/", Str(AZURE_TENANT_ID), "/v2.0">> >>

\* ------------------------------------------------------------- exceptions
Exc(cls, msg) == [cls |-> cls, msg |-> msg]

\* no exception
NoExc == [cls |-> "none"]

\* direct base class of each exception class that can arise
BaseOf ==
    [c \in {"PyJWTError", "InvalidTokenError", "DecodeError", "InvalidSignatureError",
            "ExpiredSignatureError", "InvalidAudienceError", "InvalidIssuerError",
            "ImmatureSignatureError", "InvalidAlgorithmError",
            "MissingRequiredClaimError", "PyJWKClientError",
            "PyJWKClientConnectionError", "PyJWKSetError", "ValueError",
            "JSONDecodeError", "AttributeError", "HTTPException"} |->
        CASE c \in {"PyJWTError", "ValueError", "AttributeError", "HTTPException"}
                -> "Exception"
          [] c \in {"InvalidTokenError", "PyJWKClientError", "PyJWKSetError"}
                -> "PyJWTError"
          [] c = "InvalidSignatureError" -> "DecodeError"
          [] c = "PyJWKClientConnectionError" -> "PyJWKClientError"
          [] c = "JSONDecodeError" -> "ValueError"
          [] OTHER -> "InvalidTokenError"]

RECURSIVE IsInstance(_, _)
\* isinstance(e, target) for an exception of class cls
IsInstance(cls, target) ==
    IF cls = target THEN TRUE
    ELSE IF cls = "Exception" THEN FALSE
    ELSE IsInstance(BaseOf[cls], target)

\* ------------------------------------------------------------------ PyJWT
\* outcomes of one GET of the JWKS document
FetchOutcomes == {"ok", "unreachable", "http_error", "malformed_json", "malformed_jwks"}

Ok(v) == [ok |-> TRUE, value |-> v]

Raise(cls, msg) == [ok |-> FALSE, exc |-> Exc(cls, msg)]

\* PyJWKClient.fetch_data and the parse of the document: the key set, or
\* the error of a failed fetch
fetch_key_set(fetch, keys) ==
    IF fetch \in {"unreachable", "http_error"}
        THEN Raise("PyJWKClientConnectionError", "Fail to fetch data from the url")
    ELSE IF fetch = "malformed_json"
        THEN Raise("JSONDecodeError", "Expecting value")
    ELSE IF fetch = "malformed_jwks"
        THEN Raise("PyJWKClientError", "Invalid JWK Set value")
    ELSE Ok(keys)

\* mutant: a key-id the key set does not hold falls back to some published key
get_signing_key_any(token, fetch, keys) ==
    IF token.segments # 3
        THEN Raise("DecodeError", "Not enough segments")
    ELSE With(fetch_key_set(fetch, keys), LAMBDA jwk_set :
         IF ~jwk_set.ok THEN jwk_set
         ELSE IF Get(token.header, "kid") \notin DOMAIN jwk_set.value
            THEN Ok(jwk_set.value[CHOOSE k \in DOMAIN jwk_set.value : TRUE])
         ELSE Ok(jwk_set.value[token.header["kid"]]))

\* PyJWKClient.get_signing_key_from_jwt: read the key-id from the unverified
\* header, fetch the key set, pick the key with that key-id
get_signing_key_from_jwt(token, fetch, keys) ==
    IF token.segments # 3
        THEN Raise("DecodeError", "Not enough segments")
    ELSE With(fetch_key_set(fetch, keys), LAMBDA jwk_set :
         IF ~jwk_set.ok THEN jwk_set
         ELSE IF Get(token.header, "kid") \notin DOMAIN jwk_set.value
            THEN Raise("PyJWKClientError", "Unable to find a signing key that matches")
         ELSE Ok(jwk_set.value[token.header["kid"]]))

\* jwt.decode(token, options={"verify_signature": False}): the payload, unchecked
jwt_decode_unverified(token) ==
    IF token.segments # 3
        THEN Raise("DecodeError", "Not enough segments")
        ELSE Ok(token.payload)

\* the signature step of jwt.decode: the algorithm of the header must be an
\* allowed one and the signature must verify under the key
verify_signature(token, key, algorithms) ==
    IF token.segments # 3
        THEN Raise("DecodeError", "Not enough segments")
    ELSE IF "alg" \notin DOMAIN token.header
        THEN Raise("InvalidAlgorithmError", "Algorithm not specified")
    ELSE IF token.header["alg"] \notin algorithms
        THEN Raise("InvalidAlgorithmError", "The specified alg value is not allowed")
    ELSE IF token.signedBy # key
        THEN Raise("InvalidSignatureError", "Signature verification failed")
    ELSE Ok(token.payload)

\* mutant: the audience is checked before the issuer
validate_claims_aud_first(payload, audience, issuer, time, options) ==
    IF "nbf" \in DOMAIN payload /\ payload["nbf"] > time
        THEN Raise("ImmatureSignatureError", "The token is not yet valid (nbf)")
    ELSE IF options["verify_exp"] /\ "exp" \in DOMAIN payload /\ payload["exp"] <= time
        THEN Raise("ExpiredSignatureError", "Signature has expired")
    ELSE IF options["verify_aud"] /\ "aud" \notin DOMAIN payload
        THEN Raise("MissingRequiredClaimError", "Token is missing the aud claim")
    ELSE IF options["verify_aud"] /\ payload["aud"] # audience
        THEN Raise("InvalidAudienceError", "Audience doesn't match")
    ELSE IF options["verify_iss"] /\ "iss" \notin DOMAIN payload
        THEN Raise("MissingRequiredClaimError", "Token is missing the iss claim")
    ELSE IF options["verify_iss"] /\ \A i \in 1..Len(issuer) : issuer[i] # payload["iss"]
        THEN Raise("InvalidIssuerError", "Invalid issuer")
    ELSE Ok(payload)

\* the claims step of jwt.decode, in PyJWT's order: nbf, exp, iss, aud; each
\* of exp, aud, iss is checked when its verify_ option is on
validate_claims(payload, audience, issuer, time, options) ==
    IF "nbf" \in DOMAIN payload /\ payload["nbf"] > time
        THEN Raise("ImmatureSignatureError", "The token is not yet valid (nbf)")
    ELSE IF options["verify_exp"] /\ "exp" \in DOMAIN payload /\ payload["exp"] <= time
        THEN Raise("ExpiredSignatureError", "Signature has expired")
    ELSE IF options["verify_iss"] /\ "iss" \notin DOMAIN payload
        THEN Raise("MissingRequiredClaimError", "Token is missing the iss claim")
    ELSE IF options["verify_iss"] /\ \A i \in 1..Len(issuer) : issuer[i] # payload["iss"]
        THEN Raise("InvalidIssuerError", "Invalid issuer")
    ELSE IF options["verify_aud"] /\ "aud" \notin DOMAIN payload
        THEN Raise("MissingRequiredClaimError", "Token is missing the aud claim")
    ELSE IF options["verify_aud"] /\ payload["aud"] # audience
        THEN Raise("InvalidAudienceError", "Audience doesn't match")
    ELSE Ok(payload)

\* mutant: the audience check is switched off ("verify_aud": False)
jwt_decode_no_aud(token, key, algorithms, audience, issuer, time) ==
    With(verify_signature(token, key, algorithms), LAMBDA verified :
    IF ~verified.ok THEN verified
    ELSE validate_claims(verified.value, audience, issuer, time,
            [verify_signature |-> TRUE, verify_exp |-> TRUE,
             verify_aud |-> FALSE, verify_iss |-> TRUE]))

\* jwt.decode(token, key, algorithms, audience, issuer, options) with the
\* options validate_token passes: signature first, then the claims
jwt_decode(token, key, algorithms, audience, issuer, time) ==
    With(verify_signature(token, key, algorithms), LAMBDA verified :
    IF ~verified.ok THEN verified
    ELSE validate_claims(verified.value, audience, issuer, time,
            [verify_signature |-> TRUE, verify_exp |-> TRUE,
             verify_aud |-> TRUE, verify_iss |-> TRUE]))

\* -------------------------------------------------------------- EntraIDAuth
\* HTTPException(status_code=401, detail=<string>)
HTTPException(detail) ==
    [ok |-> FALSE,
     exc |-> [cls |-> "HTTPException", status_code |-> 401,
              detail |-> [type |-> "str", text |-> detail]]]

\* mutant: the claims of the unverified parse are returned as they are
validate_token_body_unverified(token, time, fetch, keys) ==
    IF jwks_client = None
        THEN Raise("AttributeError", "'NoneType' object has no attribute")
    ELSE With(get_signing_key_from_jwt(token, fetch, keys), LAMBDA signing_key :
         IF ~signing_key.ok THEN signing_key
         ELSE jwt_decode_unverified(token))

\* the try body of validate_token: key lookup, unverified parse, full decode
validate_token_body(token, time, fetch, keys) ==
    IF jwks_client = None
        THEN Raise("AttributeError", "'NoneType' object has no attribute")
    ELSE With(get_signing_key_from_jwt(token, fetch, keys), LAMBDA signing_key :
         IF ~signing_key.ok THEN signing_key
         ELSE With(jwt_decode_unverified(token), LAMBDA unverified_token :
              IF ~unverified_token.ok THEN unverified_token
              ELSE jwt_decode(token, signing_key.value, {"RS256"},
                              TOKEN_AUDIENCE, valid_issuers, time)))

\* mutant: the InvalidTokenError clause comes first and shadows its subclasses
validate_token_except_generic_first(e) ==
    IF IsInstance(e.cls, "InvalidTokenError")
        THEN HTTPException(<<"Invalid token: ", e.msg>>)
    ELSE IF IsInstance(e.cls, "ExpiredSignatureError")
        THEN HTTPException(<<"Token has expired">>)
    ELSE IF IsInstance(e.cls, "InvalidAudienceError")
        THEN HTTPException(<<"Invalid token audience">>)
    ELSE IF IsInstance(e.cls, "InvalidIssuerError")
        THEN HTTPException(<<"Invalid token issuer">>)
    ELSE HTTPException(<<"Token validation failed">>)

\* the except clauses of validate_token, in source order
validate_token_except(e) ==
    IF IsInstance(e.cls, "ExpiredSignatureError")
        THEN HTTPException(<<"Token has expired">>)
    ELSE IF IsInstance(e.cls, "InvalidAudienceError")
        THEN HTTPException(<<"Invalid token audience">>)
    ELSE IF IsInstance(e.cls, "InvalidIssuerError")
        THEN HTTPException(<<"Invalid token issuer">>)
    ELSE IF IsInstance(e.cls, "InvalidTokenError")
        THEN HTTPException(<<"Invalid token: ", e.msg>>)
    ELSE HTTPException(<<"Token validation failed">>)

\* mutant: a failed key lookup is tried a second time, and the endpoint
\* answers the second fetch
validate_token_retry(token, time, fetch, keys) ==
    With(validate_token_body(token, time, fetch, keys),
         LAMBDA r : IF r.ok THEN r
                    ELSE IF IsInstance(r.exc.cls, "InvalidTokenError")
                        THEN validate_token_except(r.exc)
                    ELSE With(validate_token_body(token, time, "ok", keys),
                              LAMBDA r2 : IF r2.ok THEN r2
                                          ELSE validate_token_except(r2.exc)))

\* mutant: the claims returned carry the time of the validation
validate_token_stamped(token, time, fetch, keys) ==
    With(validate_token_body(token, time, fetch, keys),
         LAMBDA r : IF r.ok THEN Ok(Entry("validated_at", time) @@ r.value)
                    ELSE validate_token_except(r.exc))

\* EntraIDAuth.validate_token: the decoded claims, or HTTPException(401)
validate_token(token, time, fetch, keys) ==
    With(validate_token_body(token, time, fetch, keys),
         LAMBDA r : IF r.ok THEN r ELSE validate_token_except(r.exc))

\* mutant: only the tenant identifier is required
validate_config_tenant_only(tenant_id, client_id) ==
    IF ~Truthy(tenant_id)
        THEN Raise("ValueError", "Missing required Entra ID configuration.")
        ELSE Ok(None)

\* EntraIDAuth._validate_config: both identifiers must be present and non-empty
validate_config(tenant_id, client_id) ==
    IF ~(Truthy(tenant_id) /\ Truthy(client_id))
        THEN Raise("ValueError", "Missing required Entra ID configuration.")
        ELSE Ok(None)

\* EntraIDAuth.__init__: the jwks_client of the new handler, or the ValueError
EntraIDAuth_init ==
    IF ENABLE_AUTH
        THEN LET c == validate_config(AZURE_TENANT_ID, AZURE_CLIENT_ID) IN
             IF c.ok THEN Ok("PyJWKClient") ELSE c
        ELSE Ok(None)

\* ------------------------------------------------------------ input tokens
\* what the JWKS endpoint may publish: key-id -> public key
KeySets == { Entry("k1", "key1"), Entry("k1", "key1") @@ Entry("k2", "key2") }

Issuers ==
    { <<"https://sts.windows.net/", "T", "/">>,
      <<"https://login.microsoftonline.com/", "T", "/v2.0">>,
      <<"https://login.microsoftonline.com/", "U", "/v2.0">>,
      <<"https://sts.windows.net/", "T">> }

Audiences == { <<"api://", "C">>, <<"api://", "D">>, <<"aud-x">> }

\* zero or one entry for claim k, with a value from vs
Opt(k, vs) == {EmptyDict} \cup { Entry(k, v) : v \in vs }

Jwt(header, payload, signedBy) ==
    [segments |-> 3, header |-> header, payload |-> payload, signedBy |-> signedBy]

\* a string that is not three dot-separated segments ("" has one segment)
NotJwt(n) ==
    [segments |-> n, header |-> EmptyDict, payload |-> EmptyDict, signedBy |-> None]

Headers == { k @@ a : k \in Opt("kid", {"k1", "k9"}), a \in Opt("alg", {"RS256", "HS256"}) }

Payloads ==
    { Entry("sub", "alice") @@ e @@ n @@ i @@ a :
        e \in Opt("exp", 1..(MaxTime + 1)), n \in Opt("nbf", {1}),
        i \in Opt("iss", Issuers), a \in Opt("aud", Audiences) }

\* the tokens validate_token is applied to directly
Tokens ==
    { Jwt(h, p, k) : h \in Headers, p \in Payloads, k \in {"key1", "key9"} }
        \cup { NotJwt(1), NotJwt(2) }

\* environments under which the handler is constructed with authentication on
AuthEnvs ==
    { Entry("AZURE_TENANT_ID", "T") @@ Entry("AZURE_CLIENT_ID", "C"),
      Entry("AZURE_TENANT_ID", "T") @@ Entry("AZURE_CLIENT_ID", "C")
          @@ Entry("ENABLE_AUTH", "TRUE") @@ Entry("TOKEN_AUDIENCE", <<"aud-x">>) }

\* ---------------------------------------------------------- python strings
\* A path is the sequence of its characters.
\* str.startswith on sequences
StartsWith(s, prefix) ==
    Len(prefix) <= Len(s) /\ SubSeq(s, 1, Len(prefix)) = prefix

\* An Authorization header value is the sequence of its words and of the
\* single spaces between them; "" is the empty word.
RECURSIVE SplitFrom(_, _, _)
\* the pieces of s from position i on, cur being the piece under construction
SplitFrom(s, i, cur) ==
    IF i > Len(s) THEN <<cur>>
    ELSE IF s[i] = " " THEN <<cur>> \o SplitFrom(s, i + 1, "")
    ELSE SplitFrom(s, i + 1, s[i])

\* str.split(" "): the pieces between single spaces, empty pieces kept
Split(s) == SplitFrom(s, 1, "")

\* ------------------------------------------------------------ wire tokens
\* the claims of a token that passes every check under tenant T, client C
GoodClaims(sub, iss, exp) ==
    Entry("sub", sub) @@ Entry("iss", iss) @@ Entry("aud", <<"api://", "C">>)
        @@ Entry("exp", exp)

\* the compact serialisations that occur in Authorization headers, decoded
WireTokens ==
    Entry("tokA", Jwt(Entry("kid", "k1") @@ Entry("alg", "RS256"),
                      GoodClaims("alice", <<"https://login.microsoftonline.com/", "T", "/v2.0">>,
                                 MaxTime + 1), "key1"))
    @@ Entry("tokB", Jwt(Entry("kid", "k2") @@ Entry("alg", "RS256"),
                      GoodClaims("bob", <<"https://sts.windows.net/", "T", "/">>,
                                 MaxTime + 1), "key2"))
    @@ Entry("tokE", Jwt(Entry("kid", "k1") @@ Entry("alg", "RS256"),
                      GoodClaims("alice", <<"https://sts.windows.net/", "T", "/">>, 0),
                      "key1"))

\* what the JWT library sees in the string s
JwtOf(s) == IF s \in DOMAIN WireTokens THEN WireTokens[s] ELSE NotJwt(1)

\* --------------------------------------------------------- AuthMiddleware
\* AuthMiddleware.__init__: excluded_paths or the default list
AuthMiddleware_init(paths) ==
    IF paths # None /\ paths # <<>>
        THEN paths
        ELSE << <<"/", "d", "o", "c", "s">>, <<"/", "r", "e", "d", "o", "c">>,
                <<"/", "o", "p", "e", "n", "a", "p", "i", ".", "j", "s", "o", "n">>,
                <<"/", "h", "e", "a", "l", "t", "h">> >>

\* the 401 raised for a missing or non-bearer Authorization header
MissingCredential ==
    [cls |-> "HTTPException", status_code |-> 401,
     detail |-> [type |-> "dict",
                 error |-> <<"unauthorized">>,
                 message |-> <<"Missing or invalid authorization header">>,
                 instructions |->
                    [how_to_get_token |-> <<"Use client credentials flow to acquire a token from Microsoft Entra ID">>,
                     token_endpoint |-> <<"https://login.microsoftonline.com/", Str(AZURE_TENANT_ID), "/oauth2/v2.0/token">>,
                     required_scopes |-> <<"api://", Str(AZURE_CLIENT_ID), "/user_read">>,
                     usage |-> <<"Include the token in the Authorization header as: Bearer <your_access_token>">>]],
     headers |-> Entry("WWW-Authenticate", "Bearer")]

\* the result of one run of the middleware: the steps taken in order, the
\* validate_token calls made, request.state afterwards, and how it ended
GateRun(log, calls, state, end, exc) ==
    [log |-> log, calls |-> calls, state |-> state, end |-> end, exc |-> exc]

\* mutant: a failure of validate_token is swallowed and the request goes on
AuthMiddleware_validate_swallow(request, token, time, fetch, keys) ==
    With(validate_token(JwtOf(token), time, fetch, keys), LAMBDA decoded_token :
    LET call == [token |-> token, res |-> decoded_token]
        log == <<"path_check", "enabled_check", "read_header", "split", "validate_token">>
    IN  IF decoded_token.ok
            THEN GateRun(log \o <<"set_user", "call_next">>, <<call>>,
                         Entry("user", decoded_token.value) @@ request.state,
                         "call_next", NoExc)
            ELSE GateRun(log \o <<"call_next">>, <<call>>, request.state,
                         "call_next", NoExc))

\* mutant: whatever validate_token raised is replaced by the generic 401
AuthMiddleware_validate_generic(request, token, time, fetch, keys) ==
    With(validate_token(JwtOf(token), time, fetch, keys), LAMBDA decoded_token :
    LET call == [token |-> token, res |-> decoded_token]
        log == <<"path_check", "enabled_check", "read_header", "split", "validate_token">>
    IN  IF decoded_token.ok
            THEN GateRun(log \o <<"set_user", "call_next">>, <<call>>,
                         Entry("user", decoded_token.value) @@ request.state,
                         "call_next", NoExc)
            ELSE GateRun(log \o <<"raise">>, <<call>>, request.state, "raise",
                         HTTPException(<<"Authentication failed">>).exc))

\* mutant: the claims attached are those of the last successful validation
\* kept on the shared handler (here: of tokA), not of this call
AuthMiddleware_validate_shared(request, token, time, fetch, keys) ==
    With(validate_token(JwtOf(token), time, fetch, keys), LAMBDA decoded_token :
    LET call == [token |-> token, res |-> decoded_token]
        log == <<"path_check", "enabled_check", "read_header", "split", "validate_token">>
    IN  IF decoded_token.ok
            THEN GateRun(log \o <<"set_user", "call_next">>, <<call>>,
                         Entry("user", WireTokens["tokA"].payload) @@ request.state,
                         "call_next", NoExc)
        ELSE IF IsInstance(decoded_token.exc.cls, "HTTPException")
            THEN GateRun(log \o <<"raise">>, <<call>>, request.state, "raise",
                         decoded_token.exc)
        ELSE GateRun(log \o <<"raise">>, <<call>>, request.state, "raise",
                     HTTPException(<<"Authentication failed">>).exc))

\* the try block around validate_token and what follows it
AuthMiddleware_validate(request, token, time, fetch, keys) ==
    With(validate_token(JwtOf(token), time, fetch, keys), LAMBDA decoded_token :
    LET call == [token |-> token, res |-> decoded_token]
        log == <<"path_check", "enabled_check", "read_header", "split", "validate_token">>
    IN  IF decoded_token.ok
            THEN GateRun(log \o <<"set_user", "call_next">>, <<call>>,
                         Entry("user", decoded_token.value) @@ request.state,
                         "call_next", NoExc)
        ELSE IF IsInstance(decoded_token.exc.cls, "HTTPException")
            THEN GateRun(log \o <<"raise">>, <<call>>, request.state, "raise",
                         decoded_token.exc)
        ELSE GateRun(log \o <<"raise">>, <<call>>, request.state, "raise",
                     HTTPException(<<"Authentication failed">>).exc))

\* mutant: the Authorization header is read and checked before the allow-list
AuthMiddleware_call_header_first(request, time, fetch, keys) ==
    IF ENABLE_AUTH /\ ("Authorization" \notin DOMAIN request.headers
                       \/ ~StartsWith(request.headers["Authorization"], <<"Bearer", " ">>))
        THEN GateRun(<<"enabled_check", "read_header", "raise">>, <<>>,
                     request.state, "raise", MissingCredential)
    ELSE IF \E i \in 1..Len(excluded_paths) : StartsWith(request.path, excluded_paths[i])
        THEN GateRun(<<"enabled_check", "read_header", "path_check", "call_next">>, <<>>,
                     request.state, "call_next", NoExc)
    ELSE IF ~ENABLE_AUTH
        THEN GateRun(<<"enabled_check", "path_check", "call_next">>, <<>>,
                     request.state, "call_next", NoExc)
    ELSE AuthMiddleware_validate(request, Split(request.headers["Authorization"])[2],
                                 time, fetch, keys)

\* mutant: a request without an Authorization header is let through; only a
\* header of the wrong scheme is rejected
AuthMiddleware_call_no_header_ok(request, time, fetch, keys) ==
    IF \E i \in 1..Len(excluded_paths) : StartsWith(request.path, excluded_paths[i])
        THEN GateRun(<<"path_check", "call_next">>, <<>>, request.state, "call_next", NoExc)
    ELSE IF ~ENABLE_AUTH \/ "Authorization" \notin DOMAIN request.headers
        THEN GateRun(<<"path_check", "enabled_check", "call_next">>, <<>>,
                     request.state, "call_next", NoExc)
    ELSE IF ~StartsWith(request.headers["Authorization"], <<"Bearer", " ">>)
        THEN GateRun(<<"path_check", "enabled_check", "read_header", "raise">>, <<>>,
                     request.state, "raise", MissingCredential)
    ELSE AuthMiddleware_validate(request, Split(request.headers["Authorization"])[2],
                                 time, fetch, keys)

\* mutant: on an allow-listed path a bearer token that validates is still
\* attached to the request before it is forwarded
AuthMiddleware_call_excluded_attach(request, time, fetch, keys) ==
    IF \E i \in 1..Len(excluded_paths) : StartsWith(request.path, excluded_paths[i])
        THEN IF /\ "Authorization" \in DOMAIN request.headers
                /\ StartsWith(request.headers["Authorization"], <<"Bearer", " ">>)
                /\ validate_token(JwtOf(Split(request.headers["Authorization"])[2]),
                                  time, "ok", keys).ok
                THEN GateRun(<<"path_check", "call_next">>, <<>>,
                             Entry("user", JwtOf(Split(request.headers["Authorization"])[2]).payload)
                                @@ request.state,
                             "call_next", NoExc)
                ELSE GateRun(<<"path_check", "call_next">>, <<>>, request.state,
                             "call_next", NoExc)
    ELSE IF ~ENABLE_AUTH
        THEN GateRun(<<"path_check", "enabled_check", "call_next">>, <<>>,
                     request.state, "call_next", NoExc)
    ELSE IF \/ "Authorization" \notin DOMAIN request.headers
            \/ request.headers["Authorization"] = <<>>
            \/ ~StartsWith(request.headers["Authorization"], <<"Bearer", " ">>)
        THEN GateRun(<<"path_check", "enabled_check", "read_header", "raise">>, <<>>,
                     request.state, "raise", MissingCredential)
    ELSE AuthMiddleware_validate(request, Split(request.headers["Authorization"])[2],
                                 time, fetch, keys)

\* mutant: an allow-list entry matches a path only at a segment boundary
\* (the path is the entry, or continues it with "/")
AuthMiddleware_call_segment_match(request, time, fetch, keys) ==
    IF \E i \in 1..Len(excluded_paths) :
            \/ request.path = excluded_paths[i]
            \/ StartsWith(request.path, excluded_paths[i] \o <<"/">>)
        THEN GateRun(<<"path_check", "call_next">>, <<>>, request.state, "call_next", NoExc)
    ELSE IF ~ENABLE_AUTH
        THEN GateRun(<<"path_check", "enabled_check", "call_next">>, <<>>,
                     request.state, "call_next", NoExc)
    ELSE IF \/ "Authorization" \notin DOMAIN request.headers
            \/ request.headers["Authorization"] = <<>>
            \/ ~StartsWith(request.headers["Authorization"], <<"Bearer", " ">>)
        THEN GateRun(<<"path_check", "enabled_check", "read_header", "raise">>, <<>>,
                     request.state, "raise", MissingCredential)
    ELSE AuthMiddleware_validate(request, Split(request.headers["Authorization"])[2],
                                 time, fetch, keys)

\* mutant: the token is the last piece of the split header, not the second
AuthMiddleware_call_last_piece(request, time, fetch, keys) ==
    IF \E i \in 1..Len(excluded_paths) : StartsWith(request.path, excluded_paths[i])
        THEN GateRun(<<"path_check", "call_next">>, <<>>, request.state, "call_next", NoExc)
    ELSE IF ~ENABLE_AUTH
        THEN GateRun(<<"path_check", "enabled_check", "call_next">>, <<>>,
                     request.state, "call_next", NoExc)
    ELSE IF \/ "Authorization" \notin DOMAIN request.headers
            \/ request.headers["Authorization"] = <<>>
            \/ ~StartsWith(request.headers["Authorization"], <<"Bearer", " ">>)
        THEN GateRun(<<"path_check", "enabled_check", "read_header", "raise">>, <<>>,
                     request.state, "raise", MissingCredential)
    ELSE LET parts == Split(request.headers["Authorization"]) IN
         AuthMiddleware_validate(request, parts[Len(parts)], time, fetch, keys)

\* AuthMiddleware.__call__ up to the call of call_next or the raise
AuthMiddleware_call(request, time, fetch, keys) ==
    IF \E i \in 1..Len(excluded_paths) : StartsWith(request.path, excluded_paths[i])
        THEN GateRun(<<"path_check", "call_next">>, <<>>, request.state, "call_next", NoExc)
    ELSE IF ~ENABLE_AUTH
        THEN GateRun(<<"path_check", "enabled_check", "call_next">>, <<>>,
                     request.state, "call_next", NoExc)
    ELSE IF \/ "Authorization" \notin DOMAIN request.headers
            \/ request.headers["Authorization"] = <<>>
            \/ ~StartsWith(request.headers["Authorization"], <<"Bearer", " ">>)
        THEN GateRun(<<"path_check", "enabled_check", "read_header", "raise">>, <<>>,
                     request.state, "raise", MissingCredential)
    ELSE LET parts == Split(request.headers["Authorization"]) IN
         IF Len(parts) < 2
            THEN GateRun(<<"path_check", "enabled_check", "read_header", "split", "raise">>,
                         <<>>, request.state, "raise",
                         Exc("IndexError", "list index out of range"))
            ELSE AuthMiddleware_validate(request, parts[2], time, fetch, keys)

\* mutant: the placeholder branch for disabled authentication is missing
get_current_user_no_placeholder(request) ==
    IF "user" \notin DOMAIN request.state
        THEN HTTPException(<<"User not authenticated">>)
        ELSE Ok(request.state["user"])

\* get_current_user: the placeholder, the attached claims, or a 401
get_current_user(request) ==
    IF ~ENABLE_AUTH
        THEN Ok(Entry("sub", "development-user") @@ Entry("name", "Development User"))
    ELSE IF "user" \notin DOMAIN request.state
        THEN HTTPException(<<"User not authenticated">>)
    ELSE Ok(request.state["user"])

\* ----------------------------------------------------------------- main.py
\* the paths used below
HEALTH == <<"/", "h", "e", "a", "l", "t", "h">>

HEALTHZ == <<"/", "h", "e", "a", "l", "t", "h", "z">>

DOCS == <<"/", "d", "o", "c", "s">>

REDOC == <<"/", "r", "e", "d", "o", "c">>

ME == <<"/", "m", "e">>

ECHO == <<"/", "e", "c", "h", "o">>

\* the allow-list main.py passes to AuthMiddleware
MainExcluded == << HEALTH, DOCS >>

\* unauthorized_handler: the JSON response for a 401; str() of a string is
\* the string, str() of a dict is its repr, a string
unauthorized_handler(exc) ==
    [status_code |-> 401,
     content |-> [error |-> <<"unauthorized">>,
                  message |-> <<"Valid authentication required. Please provide a valid bearer token.">>,
                  details |-> IF exc.detail.type = "str"
                                 THEN exc.detail
                                 ELSE [type |-> "str", text |-> <<"repr">>, of |-> exc.detail]],
     headers |-> Entry("WWW-Authenticate", "Bearer")]

\* the response for an exception that leaves the application: 401s go to
\* unauthorized_handler, anything else is a 500
RenderError(exc) ==
    IF exc.cls = "HTTPException" /\ exc.status_code = 401
        THEN unauthorized_handler(exc)
        ELSE [status_code |-> 500, content |-> [error |-> <<"Internal Server Error">>],
              headers |-> EmptyDict]

\* health_check
health_check ==
    [status_code |-> 200,
     content |-> [status |-> <<"healthy">>, service |-> <<"MCP Server">>,
                  authentication |-> IF ENABLE_AUTH THEN <<"enabled">> ELSE <<"disabled">>],
     headers |-> EmptyDict]

\* get_user_info: the projection of the current user's claims
get_user_info(request) ==
    LET token_data == get_current_user(request) IN
    IF ~token_data.ok THEN RenderError(token_data.exc)
    ELSE [status_code |-> 200,
          content |-> [user_id |-> Get(token_data.value, "sub"),
                       name |-> Get(token_data.value, "name")],
          headers |-> EmptyDict]

\* the route the application serves a forwarded request with
Route(request) ==
    IF request.path = HEALTH THEN health_check
    ELSE IF request.path = ME THEN get_user_info(request)
    ELSE IF StartsWith(request.path, ECHO)
        THEN [status_code |-> 200, content |-> [mounted |-> <<"mcp">>], headers |-> EmptyDict]
    ELSE IF request.path \in {DOCS, REDOC}
        THEN [status_code |-> 200, content |-> [page |-> <<"docs">>], headers |-> EmptyDict]
    ELSE [status_code |-> 404, content |-> [detail |-> <<"Not Found">>], headers |-> EmptyDict]

\* --------------------------------------------------------------- requests
NoResponse == [status_code |-> 0, content |-> EmptyDict, headers |-> EmptyDict]

NoRequest ==
    [pc |-> "idle", path |-> <<>>, headers |-> EmptyDict, state |-> EmptyDict,
     log |-> <<>>, calls |-> <<>>, end |-> "none", exc |-> NoExc, forwarded |-> FALSE,
     fetch |-> "none", response |-> NoResponse]

\* the paths requests are made to
Paths == {HEALTHZ, ME}

\* the Authorization header values requests carry
AuthHeaders ==
    { <<"Token", " ", "abc">>, <<"Bearer", " ", "tokA">>, <<"Bearer", " ", "tokB">>,
      <<"Bearer", " ", "tokE">> }

\* the environments the process may be started in
Envs ==
    { Entry("AZURE_TENANT_ID", "T") @@ Entry("AZURE_CLIENT_ID", "C"),
      Entry("ENABLE_AUTH", "false"),
      EmptyDict,
      Entry("AZURE_TENANT_ID", "T"),
      Entry("AZURE_TENANT_ID", "") @@ Entry("AZURE_CLIENT_ID", "C") }

\* ---------------------------------------------------------------- actions
Init ==
    /\ env \in Envs
    /\ proc = "boot"
    /\ wiring \in {"main", "default"}
    /\ jwks_client = None
    /\ excluded_paths = <<>>
    /\ installed = FALSE
    /\ now = 0
    /\ keySet = Entry("k1", "key1") @@ Entry("k2", "key2")
    /\ reqs = [r \in 1..NumReq |-> NoRequest]
    /\ vcall = [token |-> NotJwt(1), fetch |-> "ok", called |-> FALSE, res |-> Raise("none", "")]

\* import of auth.py and main.py: auth_handler = EntraIDAuth(), then the
\* middleware is registered (main.py: only with authentication enabled and
\* with its own allow-list; "default": AuthMiddleware() registered as is)
Startup ==
    /\ proc = "boot"
    /\ LET h == EntraIDAuth_init IN
       IF h.ok
          THEN /\ proc' = "running"
               /\ jwks_client' = h.value
               /\ installed' = IF wiring = "main" THEN ENABLE_AUTH ELSE TRUE
               /\ excluded_paths' = IF wiring = "main"
                                       THEN AuthMiddleware_init(MainExcluded)
                                       ELSE AuthMiddleware_init(None)
          ELSE /\ proc' = "failed"
               /\ UNCHANGED <<jwks_client, installed, excluded_paths>>
    /\ UNCHANGED <<env, wiring, now, keySet, reqs, vcall>>

\* a request arrives
Receive(r) ==
    /\ proc = "running"
    /\ reqs[r].pc = "idle"
    /\ \E path \in Paths, headers \in Opt("Authorization", AuthHeaders) :
         reqs' = [reqs EXCEPT ![r] = [@ EXCEPT !.pc = "gate", !.path = path,
                                                !.headers = headers]]
    /\ UNCHANGED <<env, proc, wiring, jwks_client, excluded_paths, installed, now, keySet, vcall>>

\* the request passes the middleware, if it is registered: it is forwarded
\* (call_next is awaited) or the exception raised is rendered as the response
Gate(r) ==
    /\ reqs[r].pc = "gate"
    /\ \E fetch \in FetchOutcomes :
         \E g \in { IF installed
                        THEN AuthMiddleware_call(reqs[r], now, fetch, keySet)
                        ELSE GateRun(<<"call_next">>, <<>>, reqs[r].state, "call_next", NoExc) } :
            /\ g.calls = <<>> => fetch = "ok"
            /\ reqs' = [reqs EXCEPT ![r] =
                 [@ EXCEPT !.log = g.log, !.calls = g.calls, !.state = g.state,
                           !.end = g.end, !.exc = g.exc,
                           !.fetch = IF g.calls = <<>> THEN "none" ELSE fetch,
                           !.forwarded = (g.end = "call_next"),
                           !.pc = IF g.end = "call_next" THEN "handler" ELSE "done",
                           !.response = IF g.end = "call_next" THEN NoResponse
                                                                ELSE RenderError(g.exc)]]
    /\ UNCHANGED <<env, proc, wiring, jwks_client, excluded_paths, installed, now, keySet, vcall>>

\* the route handler runs for a forwarded request and the response is sent
Handler(r) ==
    /\ reqs[r].pc = "handler"
    /\ reqs' = [reqs EXCEPT ![r] = [@ EXCEPT !.pc = "done", !.response = Route(reqs[r])]]
    /\ UNCHANGED <<env, proc, wiring, jwks_client, excluded_paths, installed, now, keySet, vcall>>

Next ==
    \/ Startup
    \/ \E r \in 1..NumReq : Receive(r)
    \/ \E r \in 1..NumReq : Gate(r)
    \/ \E r \in 1..NumReq : Handler(r)

Spec == Init /\ [][Next]_vars

\* ------------------------------------------- validate_token called directly
VInit ==
    /\ env \in AuthEnvs
    /\ proc = "running"
    /\ wiring = "main"
    /\ jwks_client = EntraIDAuth_init.value
    /\ excluded_paths = <<>>
    /\ installed = ENABLE_AUTH
    /\ now \in 0..MaxTime
    /\ keySet \in KeySets
    /\ reqs = [r \in 1..NumReq |-> NoRequest]
    /\ vcall \in [token : Tokens, fetch : FetchOutcomes, called : {FALSE}, res : {Raise("none", "")}]

\* one call auth_handler.validate_token(token) at the current time, against
\* the key set currently published
VValidate ==
    /\ ~vcall.called
    /\ vcall' = [vcall EXCEPT !.called = TRUE,
                              !.res = validate_token(vcall.token, now, vcall.fetch, keySet)]
    /\ UNCHANGED <<env, proc, wiring, jwks_client, excluded_paths, installed, now, keySet, reqs>>

VNext == VValidate

VSpec == VInit /\ [][VNext]_vars

\* ------------------------------------------- validate_token called twice
\* the tokens validated twice: the wire tokens, and tokens of alice that
\* expire at each time of the clock, signed by the published or a foreign key
TwiceTokens ==
    { WireTokens[t] : t \in DOMAIN WireTokens }
        \cup { Jwt(Entry("kid", "k1") @@ Entry("alg", "RS256"), GoodClaims("alice", i, e), k) :
                 i \in { <<"https://sts.windows.net/", "T", "/">>,
                         <<"https://login.microsoftonline.com/", "U", "/v2.0">> },
                 e \in 1..(MaxTime + 1), k \in {"key1", "key9"} }
        \cup { NotJwt(1) }

\* what the JWKS endpoint may publish after a key rotation
RotatedKeySets ==
    KeySets \cup { Entry("k1", "key9") @@ Entry("k2", "key2"), Entry("k3", "key3") }

TwiceInit ==
    /\ env \in AuthEnvs
    /\ proc = "running"
    /\ wiring = "main"
    /\ jwks_client = EntraIDAuth_init.value
    /\ excluded_paths = <<>>
    /\ installed = ENABLE_AUTH
    /\ now \in 0..MaxTime
    /\ keySet \in KeySets
    /\ reqs = [r \in 1..NumReq |-> NoRequest]
    /\ \E t \in TwiceTokens, f1 \in {"ok", "unreachable"}, f2 \in FetchOutcomes :
         vcall = [token |-> t, fetch |-> f1, called |-> FALSE, res |-> Raise("none", ""),
                  at |-> now, refetch |-> f2, again |-> FALSE, res2 |-> Raise("none", "")]

\* time passes between the two calls
VTick ==
    /\ vcall.called /\ ~vcall.again
    /\ now < MaxTime
    /\ now' = now + 1
    /\ UNCHANGED <<env, proc, wiring, jwks_client, excluded_paths, installed, keySet, reqs, vcall>>

\* the identity provider rotates its keys between the two calls
VRotate ==
    /\ vcall.called /\ ~vcall.again
    /\ keySet \in KeySets
    /\ keySet' \in RotatedKeySets \ {keySet}
    /\ UNCHANGED <<env, proc, wiring, jwks_client, excluded_paths, installed, now, reqs, vcall>>

\* the second call auth_handler.validate_token(token), with the same token,
\* at the time it is made and against the key set published then
VValidateAgain ==
    /\ vcall.called /\ ~vcall.again
    /\ vcall' = [vcall EXCEPT !.again = TRUE,
                              !.res2 = validate_token(vcall.token, now, vcall.refetch, keySet)]
    /\ UNCHANGED <<env, proc, wiring, jwks_client, excluded_paths, installed, now, keySet, reqs>>

TwiceNext ==
    \/ VValidate
    \/ VTick
    \/ VRotate
    \/ VValidateAgain

TwiceSpec == TwiceInit /\ [][TwiceNext]_vars

\* ------------------------------------------- one request through the gate
HEALTHZ_ADMIN == <<"/", "h", "e", "a", "l", "t", "h", "z", "-", "a", "d", "m", "i", "n">>

DOCS_INTERNAL == <<"/", "d", "o", "c", "s", "-", "i", "n", "t", "e", "r", "n", "a", "l">>

OPENAPI == <<"/", "o", "p", "e", "n", "a", "p", "i", ".", "j", "s", "o", "n">>

HEAL == <<"/", "h", "e", "a", "l">>

API_HEALTH == <<"/", "a", "p", "i", "/", "h", "e", "a", "l", "t", "h">>

\* the paths the one request is made to
GatePaths == {HEALTH, HEALTHZ_ADMIN, DOCS, DOCS_INTERNAL, REDOC, OPENAPI, ME, HEAL, API_HEALTH}

\* the Authorization header values the one request carries: "", "Bearer",
\* "Bearer ", "Bearer  tokA" (two spaces), "Bearer a b", "Bearer tokA",
\* "Bearer tokA x", "bearer tokA", "Token abc"
GateHeaders ==
    { <<>>, <<"Bearer">>, <<"Bearer", " ">>, <<"Bearer", " ", " ", "tokA">>,
      <<"Bearer", " ", "a", " ", "b">>, <<"Bearer", " ", "tokA">>,
      <<"Bearer", " ", "tokA", " ", "x">>, <<"bearer", " ", "tokA">>,
      <<"Token", " ", "abc">> }

\* the application is running with authentication enabled, the middleware
\* registered as main.py does or with its default list, and one request has
\* arrived
GateInit ==
    /\ env = Entry("AZURE_TENANT_ID", "T") @@ Entry("AZURE_CLIENT_ID", "C")
    /\ proc = "running"
    /\ wiring \in {"main", "default"}
    /\ jwks_client = EntraIDAuth_init.value
    /\ excluded_paths = IF wiring = "main" THEN AuthMiddleware_init(MainExcluded)
                                           ELSE AuthMiddleware_init(None)
    /\ installed = TRUE
    /\ now = 0
    /\ keySet = Entry("k1", "key1") @@ Entry("k2", "key2")
    /\ \E path \in GatePaths, headers \in Opt("Authorization", GateHeaders) :
         reqs = [r \in 1..NumReq |->
                    IF r = 1 THEN [NoRequest EXCEPT !.pc = "gate", !.path = path,
                                                    !.headers = headers]
                             ELSE NoRequest]
    /\ vcall = [token |-> NotJwt(1), fetch |-> "ok", called |-> FALSE, res |-> Raise("none", "")]

GateNext ==
    \/ \E r \in 1..NumReq : Gate(r)
    \/ \E r \in 1..NumReq : Handler(r)

GateSpec == GateInit /\ [][GateNext]_vars

\* the code's scheduling: a received request is run through the middleware
\* (the only blocking step, the JWKS fetch, ends by its timeout) and a
\* forwarded request is served
FairSpec ==
    /\ Spec
    /\ \A r \in 1..NumReq : WF_vars(Gate(r)) /\ WF_vars(Handler(r))

\* ------------------------------------------------- vocabulary of the claims
\* the middleware has run for request r
AfterGate(r) == reqs[r].pc \in {"handler", "done"}

\* some allow-list entry is a prefix of the path of request r
AllowListed(r) ==
    \E i \in 1..Len(excluded_paths) :
        /\ Len(excluded_paths[i]) <= Len(reqs[r].path)
        /\ \A j \in 1..Len(excluded_paths[i]) : reqs[r].path[j] = excluded_paths[i][j]

\* position of the first occurrence of step e in the trace of request r, 0 if none
Pos(r, e) ==
    IF \E i \in 1..Len(reqs[r].log) : reqs[r].log[i] = e
        THEN CHOOSE i \in 1..Len(reqs[r].log) :
                /\ reqs[r].log[i] = e
                /\ \A j \in 1..(i - 1) : reqs[r].log[j] # e
        ELSE 0

\* the terminal states of the Auth Gate, read off what the gate did
ExcludedSt(r) == AfterGate(r) /\ reqs[r].forwarded /\ reqs[r].calls = <<>>

RejectedSt(r) == AfterGate(r) /\ reqs[r].end = "raise"

AuthenticatedSt(r) ==
    /\ AfterGate(r) /\ reqs[r].forwarded
    /\ Len(reqs[r].calls) = 1 /\ reqs[r].calls[1].res.ok
    /\ "user" \in DOMAIN reqs[r].state

\* the middleware is registered and enforcing
Enforcing == proc = "running" /\ installed /\ ENABLE_AUTH

\* ------------------------------------------------------------------ claims
\* C1: with authentication enabled, a request whose path has no allow-list
\* prefix is forwarded only after validate_token returned successfully for
\* the token of that request's own Authorization header; a request that ends
\* Rejected is never forwarded.
C1_ForwardOnlyAfterValidation ==
    \A r \in 1..NumReq :
        (Enforcing /\ AfterGate(r) /\ ~AllowListed(r)) =>
            /\ reqs[r].forwarded =>
                  /\ "Authorization" \in DOMAIN reqs[r].headers
                  /\ Len(reqs[r].headers["Authorization"]) >= 3
                  /\ Len(reqs[r].calls) = 1
                  /\ reqs[r].calls[1].token = reqs[r].headers["Authorization"][3]
                  /\ reqs[r].calls[1].res.ok
                  /\ 0 < Pos(r, "validate_token")
                  /\ Pos(r, "validate_token") < Pos(r, "call_next")
            /\ reqs[r].end = "raise" =>
                  /\ ~reqs[r].forwarded
                  /\ Pos(r, "call_next") = 0
                  /\ reqs[r].pc = "done"
                  /\ reqs[r].response.status_code # 200

\* C1 witness: one request was forwarded after its token validated, another
\* was rejected by the validator and answered without reaching a handler
C1_Witness ==
    /\ Enforcing
    /\ \E r \in 1..NumReq :
        ~AllowListed(r) /\ reqs[r].pc = "done" /\ reqs[r].forwarded
            /\ reqs[r].calls # <<>>
    /\ \E r \in 1..NumReq :
        ~AllowListed(r) /\ reqs[r].pc = "done" /\ reqs[r].end = "raise"
            /\ reqs[r].calls # <<>>

\* ---- the outcome of the direct call, in the words of the error taxonomy
\* validate_token failed with the 401 whose detail is the text d
FailedWith(d) ==
    /\ vcall.called /\ ~vcall.res.ok
    /\ vcall.res.exc.cls = "HTTPException" /\ vcall.res.exc.status_code = 401
    /\ vcall.res.exc.detail = [type |-> "str", text |-> d]

\* the token of the direct call is three segments
WellFormed == vcall.token.segments = 3

\* the key set was fetched and holds a key for the token's declared key-id
KeyResolved ==
    /\ WellFormed /\ vcall.fetch = "ok"
    /\ "kid" \in DOMAIN vcall.token.header
    /\ vcall.token.header["kid"] \in DOMAIN keySet

\* the signature verifies under RS256 with the key resolved for the key-id
SignatureValid ==
    /\ KeyResolved
    /\ "alg" \in DOMAIN vcall.token.header /\ vcall.token.header["alg"] = "RS256"
    /\ vcall.token.signedBy = keySet[vcall.token.header["kid"]]

\* the expiration claim is in the past (at or before the current time)
ExpiredNow == "exp" \in DOMAIN vcall.token.payload /\ vcall.token.payload["exp"] <= now

\* the not-before claim is in the future
ImmatureNow == "nbf" \in DOMAIN vcall.token.payload /\ vcall.token.payload["nbf"] > now

\* the configured audience: TOKEN_AUDIENCE if set, else api://<client id>
ConfiguredAudience ==
    IF "TOKEN_AUDIENCE" \in DOMAIN env THEN env["TOKEN_AUDIENCE"]
    ELSE <<"api://", env["AZURE_CLIENT_ID"]>>

AudienceOk ==
    "aud" \in DOMAIN vcall.token.payload /\ vcall.token.payload["aud"] = ConfiguredAudience

\* the two issuer forms of the configured tenant
IssuerV1 == <<"https://sts.windows.net/", env["AZURE_TENANT_ID"], "/">>

IssuerV2 == <<"https://login.microsoftonline.com/", env["AZURE_TENANT_ID"], "/v2.0">>

IssuerOk ==
    "iss" \in DOMAIN vcall.token.payload /\ vcall.token.payload["iss"] \in {IssuerV1, IssuerV2}

\* C2: validate_token returns a claim set only when the signature verifies
\* under RS256 with the key resolved for the token's key-id, the expiration
\* is not in the past, the audience is the configured one and the issuer is
\* an accepted one; the claim set returned is the token's own payload, and
\* every other outcome is a 401 failure.
C2_ValidOnlyIfAllChecksPass ==
    vcall.called =>
        /\ vcall.res.ok =>
              /\ SignatureValid /\ ~ExpiredNow /\ AudienceOk /\ IssuerOk
              /\ vcall.res.value = vcall.token.payload
        /\ ~vcall.res.ok =>
              /\ vcall.res.exc.cls = "HTTPException"
              /\ vcall.res.exc.status_code = 401
        /\ ~(SignatureValid /\ ~ExpiredNow /\ AudienceOk /\ IssuerOk) => ~vcall.res.ok

\* C2 witness: a claim set was returned for a token carrying an expiration
C2_Witness ==
    /\ vcall.called /\ vcall.res.ok
    /\ "exp" \in DOMAIN vcall.token.payload
    /\ "sub" \in DOMAIN vcall.res.value

\* C6 as stated: a token whose expiration is in the past fails with Expired
\* whether or not its signature is valid (its key resolving, so that the
\* signature is looked at).
C6_ExpiredRegardlessOfSignature ==
    (vcall.called /\ KeyResolved /\ ~ImmatureNow /\ ExpiredNow)
        => FailedWith(<<"Token has expired">>)

\* C6 amended: a token with a valid signature and a not-before that has
\* passed, whose expiration is in the past, fails with "Token has expired",
\* whatever its audience and issuer are.
C6_ExpiredWhenSignatureValid ==
    (vcall.called /\ SignatureValid /\ ~ImmatureNow /\ ExpiredNow)
        => FailedWith(<<"Token has expired">>)

\* C6 witness: Expired was reported for a token whose audience and issuer
\* are both wrong too
C6_Witness ==
    /\ vcall.called /\ SignatureValid /\ ExpiredNow
    /\ "aud" \in DOMAIN vcall.token.payload /\ ~AudienceOk
    /\ "iss" \in DOMAIN vcall.token.payload /\ ~IssuerOk
    /\ FailedWith(<<"Token has expired">>)

\* C7 as stated: a token with a valid signature and an audience other than
\* the configured one fails with AudienceMismatch (the token carrying an
\* issuer claim, and no not-before in the future).
C7_AudienceMismatchWhenSigned ==
    (/\ vcall.called /\ SignatureValid /\ ~ImmatureNow
     /\ "iss" \in DOMAIN vcall.token.payload
     /\ "aud" \in DOMAIN vcall.token.payload /\ ~AudienceOk)
        => FailedWith(<<"Invalid token audience">>)

\* C7 amended: a token with a valid signature that is neither immature nor
\* expired, whose issuer is accepted and whose audience claim differs from
\* the configured audience, fails with "Invalid token audience".
C7_AudienceMismatchLast ==
    (/\ vcall.called /\ SignatureValid /\ ~ImmatureNow /\ ~ExpiredNow /\ IssuerOk
     /\ "aud" \in DOMAIN vcall.token.payload /\ ~AudienceOk)
        => FailedWith(<<"Invalid token audience">>)

\* C7 witness: AudienceMismatch was reported for a signed, current token
\* issued by the v1 issuer form
C7_Witness ==
    /\ vcall.called /\ SignatureValid /\ ~ExpiredNow
    /\ "exp" \in DOMAIN vcall.token.payload
    /\ "iss" \in DOMAIN vcall.token.payload /\ vcall.token.payload["iss"] = IssuerV1
    /\ "aud" \in DOMAIN vcall.token.payload /\ ~AudienceOk
    /\ FailedWith(<<"Invalid token audience">>)

C9_IssuerForms ==
    (vcall.called /\ SignatureValid /\ ~ImmatureNow /\ ~ExpiredNow /\ AudienceOk
     /\ "iss" \in DOMAIN vcall.token.payload)
        => /\ vcall.token.payload["iss"] \in {IssuerV1, IssuerV2}
                => vcall.res.ok /\ vcall.res.value = vcall.token.payload
           /\ vcall.token.payload["iss"] \notin {IssuerV1, IssuerV2}
                => FailedWith(<<"Invalid token issuer">>)

\* C9 witness: a token of the v1 issuer form (sts.windows.net) validated
C9_Witness ==
    /\ vcall.called /\ vcall.res.ok
    /\ vcall.res.value["iss"] = <<"https://sts.windows.net/", "T", "/">>

\* C3: every request the gate handles leaves Unchecked (from some point on
\* no received request is still waiting at the gate), is then in exactly one
\* of the terminal states Excluded, Rejected, Authenticated, and what the
\* gate did for it (its state, its trace, its validator calls, whether it was
\* forwarded) never changes afterwards.
C3_OneTerminalState ==
    /\ <>[](\A r \in 1..NumReq : reqs[r].pc # "gate")
    /\ [](\A r \in 1..NumReq :
            /\ AfterGate(r) =>
                  \/ ExcludedSt(r) /\ ~RejectedSt(r) /\ ~AuthenticatedSt(r)
                  \/ ~ExcludedSt(r) /\ RejectedSt(r) /\ ~AuthenticatedSt(r)
                  \/ ~ExcludedSt(r) /\ ~RejectedSt(r) /\ AuthenticatedSt(r)
            /\ ~AfterGate(r) => ~ExcludedSt(r) /\ ~RejectedSt(r) /\ ~AuthenticatedSt(r))
    /\ [][\A r \in 1..NumReq :
            AfterGate(r) =>
                /\ AfterGate(r)'
                /\ ExcludedSt(r)' = ExcludedSt(r)
                /\ RejectedSt(r)' = RejectedSt(r)
                /\ AuthenticatedSt(r)' = AuthenticatedSt(r)
                /\ reqs'[r].state = reqs[r].state
                /\ reqs'[r].log = reqs[r].log
                /\ reqs'[r].calls = reqs[r].calls]_vars

\* C3 witness: both requests are answered, one Rejected and one Authenticated
C3_Witness ==
    /\ \A r \in 1..NumReq : reqs[r].pc = "done"
    /\ \E r \in 1..NumReq : RejectedSt(r)
    /\ \E r \in 1..NumReq : AuthenticatedSt(r)

\* C4: a request to an allow-listed path is forwarded without invoking the
\* validator, even with no Authorization header, and the allow-list check is
\* the first thing the gate does: the header is read, and the token parsed,
\* only after it.
C4_AllowListFirst ==
    \A r \in 1..NumReq :
        (proc = "running" /\ installed /\ AfterGate(r)) =>
            /\ Pos(r, "path_check") = 1
            /\ AllowListed(r) =>
                  /\ reqs[r].forwarded
                  /\ reqs[r].calls = <<>>
                  /\ Pos(r, "read_header") = 0
                  /\ Pos(r, "split") = 0
                  /\ Pos(r, "validate_token") = 0

\* C4 witness: with authentication enforced, a request to /healthz that
\* carries no Authorization header was forwarded
C4_Witness ==
    /\ Enforcing
    /\ \E r \in 1..NumReq :
        /\ AfterGate(r) /\ AllowListed(r) /\ reqs[r].path = HEALTHZ
        /\ "Authorization" \notin DOMAIN reqs[r].headers
        /\ reqs[r].forwarded

\* the fixed placeholder identity of disabled authentication
Placeholder == [sub |-> "development-user", name |-> "Development User"]

\* C5 as stated: with authentication disabled the gate attaches the
\* placeholder identity to the request (request.state.user) and forwards it,
\* never invoking the validator.
C5_GateAttachesPlaceholder ==
    \A r \in 1..NumReq :
        (proc = "running" /\ ~ENABLE_AUTH /\ AfterGate(r)) =>
            /\ reqs[r].forwarded
            /\ reqs[r].calls = <<>>
            /\ "user" \in DOMAIN reqs[r].state
            /\ reqs[r].state["user"] = Placeholder

\* C5 amended: with authentication disabled every request is forwarded with
\* its context unchanged and the validator never invoked; the placeholder
\* identity is what get_current_user returns for it, and so what /me shows.
C5_PlaceholderFromGetCurrentUser ==
    \A r \in 1..NumReq :
        (proc = "running" /\ ~ENABLE_AUTH /\ AfterGate(r)) =>
            /\ reqs[r].forwarded
            /\ reqs[r].calls = <<>>
            /\ reqs[r].state = EmptyDict
            /\ (reqs[r].pc = "done" /\ reqs[r].path = ME) =>
                  /\ reqs[r].response.status_code = 200
                  /\ reqs[r].response.content.user_id = Placeholder.sub
                  /\ reqs[r].response.content.name = Placeholder.name

\* C5 witness: authentication is disabled, the middleware is registered, and
\* a request to /me carrying a bearer token was served
C5_Witness ==
    /\ proc = "running" /\ ~ENABLE_AUTH /\ installed
    /\ \E r \in 1..NumReq :
        /\ reqs[r].pc = "done" /\ reqs[r].path = ME
        /\ "Authorization" \in DOMAIN reqs[r].headers
        /\ reqs[r].response.status_code = 200

\* C10: with authentication enabled, a request to a protected path with no
\* Authorization header, or one not starting with "Bearer ", ends Rejected
\* without the validator being invoked, and the 401 response body contains
\* an instructions block (token endpoint, required scope, usage example).
C10_MissingCredentialInstructions ==
    \A r \in 1..NumReq :
        (/\ Enforcing /\ AfterGate(r) /\ ~AllowListed(r)
         /\ \/ "Authorization" \notin DOMAIN reqs[r].headers
            \/ reqs[r].headers["Authorization"][1] # "Bearer"
            \/ Len(reqs[r].headers["Authorization"]) < 2) =>
            /\ RejectedSt(r)
            /\ reqs[r].calls = <<>>
            /\ reqs[r].response.status_code = 401
            /\ "instructions" \in DOMAIN reqs[r].response.content
            /\ DOMAIN reqs[r].response.content["instructions"]
                    = {"how_to_get_token", "token_endpoint", "required_scopes", "usage"}

C12_ClaimsOfOwnToken ==
    \A r \in 1..NumReq :
        AuthenticatedSt(r) =>
            /\ "Authorization" \in DOMAIN reqs[r].headers
            /\ Len(reqs[r].headers["Authorization"]) >= 3
            /\ reqs[r].calls[1].token = reqs[r].headers["Authorization"][3]
            /\ reqs[r].state["user"] = reqs[r].calls[1].res.value
            /\ reqs[r].state["user"] = JwtOf(reqs[r].headers["Authorization"][3]).payload
            /\ get_current_user(reqs[r]).ok
            /\ get_current_user(reqs[r]).value = reqs[r].calls[1].res.value
            /\ (reqs[r].pc = "done" /\ reqs[r].path = ME) =>
                  /\ reqs[r].response.status_code = 200
                  /\ reqs[r].response.content.user_id
                        = JwtOf(reqs[r].headers["Authorization"][3]).payload["sub"]

\* C12 witness: alice's request passed the gate and is waiting for its
\* handler while bob's request, gated after it, has already been served
\* with bob's subject
C12_Witness ==
    \E r1, r2 \in 1..NumReq :
        /\ r1 # r2
        /\ AuthenticatedSt(r1) /\ reqs[r1].pc = "handler" /\ reqs[r1].path = ME
        /\ reqs[r1].state["user"]["sub"] = "alice"
        /\ AuthenticatedSt(r2) /\ reqs[r2].pc = "done" /\ reqs[r2].path = ME
        /\ reqs[r2].response.content.user_id = "bob"

\* the fetch of the key set failed in the direct call: the endpoint was
\* unreachable, answered non-200, or sent a malformed document
FetchFailed == WellFormed /\ vcall.fetch # "ok"

\* C13: a failure of the signing-key fetch during validate_token (endpoint
\* unreachable, non-200 answer, malformed JSON, malformed key set) makes
\* that call fail with the 401 "Token validation failed", never return
\* claims and never raise anything else, whatever the token is: the one
\* key-resolution attempt decides, also for a token that would validate
\* against the key set the endpoint publishes.
C13_FetchFailureIs401 ==
    (vcall.called /\ FetchFailed) =>
        /\ ~vcall.res.ok
        /\ vcall.res.exc.cls = "HTTPException"
        /\ vcall.res.exc.status_code = 401
        /\ FailedWith(<<"Token validation failed">>)

\* C13 witness: the fetch failed with a non-200 answer for a token that is
\* signed by the published key of its key-id, current, with the configured
\* audience and an accepted issuer
C13_Witness ==
    /\ vcall.called /\ vcall.fetch = "http_error"
    /\ WellFormed /\ "kid" \in DOMAIN vcall.token.header
    /\ vcall.token.header["kid"] \in DOMAIN keySet
    /\ vcall.token.signedBy = keySet[vcall.token.header["kid"]]
    /\ Get(vcall.token.header, "alg") = "RS256"
    /\ ~ExpiredNow /\ ~ImmatureNow /\ AudienceOk /\ IssuerOk
    /\ FailedWith(<<"Token validation failed">>)

\* the tenant or the client identifier is missing from the environment, or empty
IdentifierMissing ==
    \/ "AZURE_TENANT_ID" \notin DOMAIN env \/ env["AZURE_TENANT_ID"] = ""
    \/ "AZURE_CLIENT_ID" \notin DOMAIN env \/ env["AZURE_CLIENT_ID"] = ""

\* authentication is enabled by the environment (ENABLE_AUTH unset or "true")
AuthEnabledByEnv ==
    "ENABLE_AUTH" \in DOMAIN env => env["ENABLE_AUTH"] \in {"true", "TRUE", "True"}

\* C14: with authentication enabled and the tenant or client identifier
\* missing or empty, the construction of the handler fails at startup and no
\* request is ever handled; with authentication disabled the construction
\* succeeds whatever identifiers are missing; no request ever ends with a
\* configuration error (a ValueError, an AttributeError of the missing
\* key-set client, or a 500 answer).
C14_ConfigErrorsAtStartupOnly ==
    /\ proc # "boot" =>
          /\ (AuthEnabledByEnv /\ IdentifierMissing) <=> proc = "failed"
          /\ ~AuthEnabledByEnv => proc = "running" /\ jwks_client = None
          /\ (AuthEnabledByEnv /\ ~IdentifierMissing) =>
                proc = "running" /\ jwks_client = "PyJWKClient"
    /\ proc # "running" => \A r \in 1..NumReq : reqs[r] = NoRequest
    /\ \A r \in 1..NumReq :
          /\ reqs[r].exc.cls \notin {"ValueError", "AttributeError"}
          /\ reqs[r].response.status_code # 500

\* C14 witness: started with authentication enabled and no client
\* identifier, the process failed at startup
C14_Witness ==
    /\ proc = "failed"
    /\ AuthEnabledByEnv
    /\ "AZURE_TENANT_ID" \in DOMAIN env /\ env["AZURE_TENANT_ID"] = "T"
    /\ "AZURE_CLIENT_ID" \notin DOMAIN env

SignatureFailure ==
    \/ FailedWith(<<"Invalid token: ", "Signature verification failed">>)
    \/ FailedWith(<<"Invalid token: ", "The specified alg value is not allowed">>)
    \/ FailedWith(<<"Invalid token: ", "Algorithm not specified">>)

\* the token of the direct call carries an issuer and an audience claim and
\* no not-before in the future
ClaimsPresent ==
    /\ "iss" \in DOMAIN vcall.token.payload
    /\ "aud" \in DOMAIN vcall.token.payload
    /\ ~ImmatureNow

\* the checks before the audience and issuer checks, in the order of the
\* code: malformed token, key resolution, signature, expiration; the failure
\* reported is that of the first one failing
EarlierChecksInOrder ==
    /\ ~WellFormed => FailedWith(<<"Invalid token: ", "Not enough segments">>)
    /\ (WellFormed /\ ~KeyResolved) => FailedWith(<<"Token validation failed">>)
    /\ (KeyResolved /\ ~SignatureValid) => SignatureFailure
    /\ (SignatureValid /\ ClaimsPresent /\ ExpiredNow) => FailedWith(<<"Token has expired">>)

\* C16 as stated: the checks run in the order malformed token, key
\* resolution, signature, expiration, audience, issuer, and the failure
\* reported is that of the earliest failing check: a wrong audience is
\* reported whatever the issuer is, a wrong issuer only when the audience is
\* the configured one.
C16_SpecOrderAudienceBeforeIssuer ==
    vcall.called =>
        /\ EarlierChecksInOrder
        /\ (SignatureValid /\ ClaimsPresent /\ ~ExpiredNow /\ ~AudienceOk)
              => FailedWith(<<"Invalid token audience">>)
        /\ (SignatureValid /\ ClaimsPresent /\ ~ExpiredNow /\ AudienceOk /\ ~IssuerOk)
              => FailedWith(<<"Invalid token issuer">>)

\* C16 amended: the checks run in the order malformed token, key
\* resolution, signature, expiration, issuer, audience, and the failure
\* reported is that of the earliest failing check: a wrong issuer is
\* reported whatever the audience is, a wrong audience only when the issuer
\* is an accepted one.
C16_CodeOrderIssuerBeforeAudience ==
    vcall.called =>
        /\ EarlierChecksInOrder
        /\ (SignatureValid /\ ClaimsPresent /\ ~ExpiredNow /\ ~IssuerOk)
              => FailedWith(<<"Invalid token issuer">>)
        /\ (SignatureValid /\ ClaimsPresent /\ ~ExpiredNow /\ IssuerOk /\ ~AudienceOk)
              => FailedWith(<<"Invalid token audience">>)

\* C16 witness: a signed, current token whose audience and issuer are both
\* wrong was reported with the issuer failure
C16_Witness ==
    /\ vcall.called /\ SignatureValid /\ ClaimsPresent /\ ~ExpiredNow
    /\ ~AudienceOk /\ ~IssuerOk
    /\ FailedWith(<<"Invalid token issuer">>)

\* the reason validate_token gives to an error it does not expect: what the
\* last except clause makes of an exception outside the JWT library
CatchAllReason == validate_token_except(Exc("AttributeError", "unexpected")).exc.detail

\* C17: each failure mode has a reported reason of its own: a malformed
\* token, a key-lookup failure, an invalid signature, expiration, an
\* audience mismatch and an issuer mismatch are each reported with a reason
\* no other mode is reported with, and none of these reasons is the one the
\* catch-all gives to unexpected errors.
C17_DistinctNamedErrors ==
    vcall.called =>
        /\ FailedWith(<<"Invalid token: ", "Not enough segments">>) <=> ~WellFormed
        /\ (WellFormed /\ ~KeyResolved) =>
              /\ ~vcall.res.ok
              /\ ~FailedWith(<<"Invalid token: ", "Not enough segments">>)
              /\ ~SignatureFailure
              /\ ~FailedWith(<<"Token has expired">>)
              /\ ~FailedWith(<<"Invalid token audience">>)
              /\ ~FailedWith(<<"Invalid token issuer">>)
        /\ SignatureFailure <=> (KeyResolved /\ ~SignatureValid)
        /\ FailedWith(<<"Token has expired">>) => (SignatureValid /\ ExpiredNow)
        /\ FailedWith(<<"Invalid token audience">>) => (SignatureValid /\ ~AudienceOk)
        /\ FailedWith(<<"Invalid token issuer">>) => (SignatureValid /\ ~IssuerOk)
        /\ ~vcall.res.ok => vcall.res.exc.detail # CatchAllReason

\* C18: with authentication enabled, a request Excluded by the allow-list is
\* forwarded with its context unchanged (no request.state.user), bearer
\* token or not, so get_current_user raises the 401 "User not authenticated"
\* for it; get_current_user returns claims only for a request the gate
\* brought to Authenticated.
C18_ExcludedHasNoClaims ==
    \A r \in 1..NumReq :
        (proc = "running" /\ ENABLE_AUTH) =>
            /\ (AfterGate(r) /\ AllowListed(r)) =>
                  /\ ExcludedSt(r)
                  /\ reqs[r].state = EmptyDict
                  /\ ~get_current_user(reqs[r]).ok
                  /\ get_current_user(reqs[r]).exc.status_code = 401
                  /\ get_current_user(reqs[r]).exc.detail.text = <<"User not authenticated">>
            /\ get_current_user(reqs[r]).ok => AuthenticatedSt(r)

\* C18 witness: a request to /healthz carrying the valid token of alice was
\* forwarded by the allow-list, and served, with nothing attached
C18_Witness ==
    /\ Enforcing
    /\ \E r \in 1..NumReq :
        /\ reqs[r].pc = "done" /\ reqs[r].path = HEALTHZ /\ AllowListed(r)
        /\ reqs[r].headers = Entry("Authorization", <<"Bearer", " ", "tokA">>)
        /\ reqs[r].forwarded
        /\ "user" \notin DOMAIN reqs[r].state

\* C19: with authentication enabled a request is Excluded exactly when some
\* allow-list entry is a prefix of its path, character by character, with no
\* segment boundary required: under the list of main.py, /healthz-admin and
\* /docs-internal are forwarded unauthenticated, while /openapi.json and
\* /redoc, like every path without an entry as prefix, go on to the header
\* check and end Rejected or Authenticated.
C19_PlainStringPrefix ==
    \A r \in 1..NumReq :
        (Enforcing /\ AfterGate(r)) =>
            /\ ExcludedSt(r) <=> AllowListed(r)
            /\ ~AllowListed(r) =>
                  /\ Pos(r, "read_header") > 0
                  /\ RejectedSt(r) \/ AuthenticatedSt(r)
            /\ wiring = "main" =>
                  /\ reqs[r].path \in {HEALTH, DOCS, HEALTHZ_ADMIN, DOCS_INTERNAL}
                        => ExcludedSt(r)
                  /\ reqs[r].path \in {OPENAPI, REDOC, ME, HEAL, API_HEALTH}
                        => ~ExcludedSt(r)

\* C19 witness: under the list of main.py a request to /docs-internal with
\* no Authorization header was forwarded and served
C19_Witness ==
    /\ Enforcing /\ wiring = "main"
    /\ \E r \in 1..NumReq :
        /\ reqs[r].pc = "done" /\ reqs[r].path = DOCS_INTERNAL
        /\ "Authorization" \notin DOMAIN reqs[r].headers
        /\ reqs[r].forwarded /\ reqs[r].calls = <<>>

\* the header passes the "Bearer " prefix check
BearerPrefixed(h) == Len(h) >= 2 /\ h[1] = "Bearer" /\ h[2] = " "

\* what lies between the first and the second space of the header
SecondPiece(h) == IF Len(h) >= 3 /\ h[3] # " " THEN h[3] ELSE ""

\* C20: for a gated request whose Authorization header starts with
\* "Bearer ", the token extraction does not raise and validate_token is
\* called once, with the second piece of the header split on single spaces:
\* the empty token for "Bearer " and "Bearer  tokA", "a" for "Bearer a b";
\* when validate_token fails the request is Rejected with 401 and not
\* forwarded, as it is for these three headers.
C20_TokenExtractionDefined ==
    \A r \in 1..NumReq :
        (/\ Enforcing /\ AfterGate(r) /\ ~AllowListed(r)
         /\ "Authorization" \in DOMAIN reqs[r].headers
         /\ BearerPrefixed(reqs[r].headers["Authorization"])) =>
            /\ reqs[r].exc.cls # "IndexError"
            /\ Pos(r, "split") > 0
            /\ Len(reqs[r].calls) = 1
            /\ reqs[r].calls[1].token = SecondPiece(reqs[r].headers["Authorization"])
            /\ reqs[r].headers["Authorization"]
                    \in { <<"Bearer", " ">>, <<"Bearer", " ", " ", "tokA">> }
                  => reqs[r].calls[1].token = "" /\ ~reqs[r].calls[1].res.ok
            /\ reqs[r].headers["Authorization"] = <<"Bearer", " ", "a", " ", "b">>
                  => reqs[r].calls[1].token = "a" /\ ~reqs[r].calls[1].res.ok
            /\ ~reqs[r].calls[1].res.ok =>
                  /\ RejectedSt(r) /\ ~reqs[r].forwarded /\ reqs[r].pc = "done"
                  /\ reqs[r].response.status_code = 401
            /\ reqs[r].calls[1].res.ok => AuthenticatedSt(r)

\* C20 witness: the header "Bearer  tokA" (two spaces) gave the empty token
\* to validate_token and the request was answered 401
C20_Witness ==
    \E r \in 1..NumReq :
        /\ Enforcing /\ reqs[r].pc = "done" /\ reqs[r].path = ME
        /\ reqs[r].headers = Entry("Authorization", <<"Bearer", " ", " ", "tokA">>)
        /\ Len(reqs[r].calls) = 1 /\ reqs[r].calls[1].token = ""
        /\ RejectedSt(r) /\ reqs[r].response.status_code = 401

====
